---- MODULE Spec2Model ----
(***************************************************************************)
(* Model of the sealed-bid auction order core of opencx (package match):   *)
(* the AuctionOrder binary codec, its price/side logic, the encrypted      *)
(* order envelope and the concurrent puzzle solver pipeline                *)
(* (SolveRC5AuctionOrderAsync).                                            *)
(*                                                                         *)
(* Bytes are the integers 0..255, byte slices are sequences.  Strings are  *)
(* byte sequences (their UTF-8 encoding), so that len(a.Side) is Len.      *)
(***************************************************************************)
EXTENDS Integers, Sequences, FiniteSets, TLC

\* ------------------------------------------------------------------ bounds

\* Number of encrypted orders in a batch (one solver goroutine per order).
NumOrders == 2

\* Longest signature of a sample order.
MaxSigLen == 2

\* ------------------------------------------------------- program constants

PubkeyLen == 33
AuctionIDLen == 32
NonceLen == 2
\* binary.Size of a uint64 or a float64, and the width PutUint64 writes.
Uint64Size == 8
\* The bytes Deserialize reads the trading pair from.
PairBytes == 2
\* Pair.Size(): a trading pair is a 2-byte code.
PairSize == 2

\* ------------------------------------------------------------ byte helpers

Rep(b, n) == [i \in 1..n |-> b]

Take(s, n) == SubSeq(s, 1, n)

Drop(s, n) == SubSeq(s, n + 1, Len(s))

\* The n bytes of data that follow offset off.
Field(data, off, n) == SubSeq(data, off + 1, off + n)

\* Every uint64 at or above Huge is represented by Huge: TLC's integers are
\* 32 bits wide, and every buffer of the model is far shorter than Huge, so a
\* length prefix of Huge or more exceeds the remaining bytes either way.
Huge == 256 * 256 * 256

\* binary.LittleEndian.PutUint64, for v < Huge (the upper five bytes are 0).
PutUint64(v) ==
  << v % 256, (v \div 256) % 256, (v \div (256 * 256)) % 256, 0, 0, 0, 0, 0 >>

\* binary.LittleEndian.Uint64 of an 8-byte slice, saturating at Huge.
Uint64(b) ==
  IF \E i \in 4..8 : b[i] # 0
    THEN Huge
    ELSE b[1] + 256 * b[2] + 256 * 256 * b[3]

\* "buy" and "sell" as bytes.
BuyStr == << 98, 117, 121 >>

SellStr == << 115, 101, 108, 108 >>

\* The empty string.
EmptyStr == << >>

\* ---------------------------------------------------------------- Pair

\* Pair.Serialize: the two asset bytes.
PairSerialize(p) == << p.AssetWant, p.AssetHave >>

\* Pair.Deserialize of a 2-byte slice.
PairDeserialize(b) == [AssetWant |-> b[1], AssetHave |-> b[2]]

\* ---------------------------------------------------------- AuctionOrder

\* new(AuctionOrder): the zero value.  OrderbookPrice is a float, modelled as
\* a rational [num, den].
ZeroPrice == [num |-> 0, den |-> 1]

NewAuctionOrder ==
  [Pubkey |-> Rep(0, PubkeyLen),
   Side |-> EmptyStr,
   TradingPair |-> [AssetWant |-> 0, AssetHave |-> 0],
   AmountHave |-> 0,
   AmountWant |-> 0,
   OrderbookPrice |-> ZeroPrice,
   AuctionID |-> Rep(0, AuctionIDLen),
   Nonce |-> Rep(0, NonceLen),
   Signature |-> << >>]

IsBuySide(a) == a.Side = BuyStr

IsSellSide(a) == a.Side = SellStr

\* OppositeSide answering buy for every side that is not buy.
OppositeSide_DefaultsToBuy(a) ==
  IF IsBuySide(a) THEN SellStr ELSE BuyStr

OppositeSide(a) ==
  IF IsBuySide(a) THEN SellStr
  ELSE IF IsSellSide(a) THEN BuyStr
  ELSE EmptyStr

\* SerializeSignable going on to write the signature length after the nonce.
SerializeSignable_WithSigLen(a) ==
  a.Pubkey \o PairSerialize(a.TradingPair) \o PutUint64(a.AmountHave)
    \o PutUint64(a.AmountWant) \o PutUint64(Len(a.Side)) \o a.Side
    \o a.AuctionID \o a.Nonce
    \o PutUint64(Len(a.Signature))

\* SerializeSignable: every field up to and including the nonce.
SerializeSignable(a) ==
  a.Pubkey \o PairSerialize(a.TradingPair) \o PutUint64(a.AmountHave)
    \o PutUint64(a.AmountWant) \o PutUint64(Len(a.Side)) \o a.Side
    \o a.AuctionID \o a.Nonce

\* Serialize writing the nonce after the signature.
Serialize_NonceLast(a) ==
  a.Pubkey \o PairSerialize(a.TradingPair) \o PutUint64(a.AmountHave)
    \o PutUint64(a.AmountWant) \o PutUint64(Len(a.Side)) \o a.Side
    \o a.AuctionID
    \o PutUint64(Len(a.Signature)) \o a.Signature \o a.Nonce

Serialize(a) ==
  a.Pubkey \o PairSerialize(a.TradingPair) \o PutUint64(a.AmountHave)
    \o PutUint64(a.AmountWant) \o PutUint64(Len(a.Side)) \o a.Side
    \o a.AuctionID \o a.Nonce
    \o PutUint64(Len(a.Signature)) \o a.Signature

\* The length Deserialize requires before it reads: nonce, auctionID, the
\* size of OrderbookPrice, of AmountWant, of AmountHave, the pair, the pubkey.
minimumDataLength ==
  NonceLen + AuctionIDLen + Uint64Size + Uint64Size + Uint64Size
    + PairSize + PubkeyLen

\* Offsets of the fields Deserialize reads, in the order it reads them.  Each
\* read is data[:n] followed by data = data[n:]; the second panics unless
\* n <= len(data), so whatever the capacity of the slice, Deserialize panics
\* exactly when a field extends past the end of the data.
SideLenOff == PubkeyLen + PairBytes + Uint64Size + Uint64Size

SideOff == SideLenOff + Uint64Size

sideLenOf(data) == Uint64(Field(data, SideLenOff, Uint64Size))

AuctionIDOff(data) == SideOff + sideLenOf(data)

NonceOff(data) == AuctionIDOff(data) + AuctionIDLen

SigLenOff(data) == NonceOff(data) + NonceLen

SigOff(data) == SigLenOff(data) + Uint64Size

sigLenOf(data) == Uint64(Field(data, SigLenOff(data), Uint64Size))

\* No slice expression of Deserialize is out of range.
InBounds(data) ==
  /\ SideOff <= Len(data)
  /\ AuctionIDOff(data) <= Len(data)
  /\ NonceOff(data) <= Len(data)
  /\ SigLenOff(data) <= Len(data)
  /\ SigOff(data) <= Len(data)
  /\ SigOff(data) + sigLenOf(data) <= Len(data)

\* a.Deserialize(data): err is "none", "TooShort" or "panic" (a slice bounds
\* out of range run-time panic); a is the receiver afterwards.
Deserialize(a, data) ==
  IF Len(data) < minimumDataLength
    THEN [err |-> "TooShort", a |-> a]
  ELSE IF ~InBounds(data)
    THEN [err |-> "panic", a |-> a]
  ELSE [err |-> "none",
        a |-> [a EXCEPT
                 !.Pubkey = Field(data, 0, PubkeyLen),
                 !.TradingPair = PairDeserialize(Field(data, PubkeyLen, PairBytes)),
                 !.AmountHave = Uint64(Field(data, PubkeyLen + PairBytes, Uint64Size)),
                 !.AmountWant =
                   Uint64(Field(data, PubkeyLen + PairBytes + Uint64Size, Uint64Size)),
                 !.Side = Field(data, SideOff, sideLenOf(data)),
                 !.AuctionID = Field(data, AuctionIDOff(data), AuctionIDLen),
                 !.Nonce = Field(data, NonceOff(data), NonceLen),
                 !.Signature = Field(data, SigOff(data), sigLenOf(data))]]

\* A float64 is modelled as the rational num/den (den = 0: +Inf or NaN).  The
\* amounts of the model are below 2^24 and the prices are dyadic, so every
\* product is exact in float64 and no quotient rounds onto an integer.
Rat(n, d) == [num |-> n, den |-> d]

\* a.Price(): the (price, err) pair it returns.  The sell branch assigns the
\* price and falls through to the final error.
Price(a) ==
  IF a.AmountWant = 0
    THEN [price |-> ZeroPrice, err |-> "DivideByZero"]
  ELSE IF IsBuySide(a)
    THEN [price |-> Rat(a.AmountWant, a.AmountHave), err |-> "none"]
  ELSE IF IsSellSide(a)
    THEN [price |-> Rat(a.AmountHave, a.AmountWant), err |-> "InvalidSide"]
  ELSE [price |-> ZeroPrice, err |-> "InvalidSide"]

\* A conversion that rounds to the nearest integer.
TruncUint64_Rounds(n, d) == (2 * n + d) \div (2 * d)

\* uint64(f) of a non-negative float f = n/d: truncation toward zero.
TruncUint64(n, d) == n \div d

\* a.SetAmountWant(price): err and the receiver afterwards.
SetAmountWant(a, price) ==
  IF price.num <= 0
    THEN [err |-> "InvalidPrice", a |-> a]
  ELSE IF IsBuySide(a)
    THEN [err |-> "none",
          a |-> [a EXCEPT !.AmountWant =
                   TruncUint64(a.AmountHave * price.num, price.den)]]
  ELSE IF IsSellSide(a)
    THEN [err |-> "none",
          a |-> [a EXCEPT !.AmountWant =
                   TruncUint64(a.AmountHave * price.den, price.num)]]
  ELSE [err |-> "InvalidSide", a |-> a]

\* ------------------------------------------------------ puzzle algebra

\* timelockencoders.CreateRSW2048A2PuzzleRC5(t, payload) with the key its
\* randomness drew: the payload encrypted under the key, and a puzzle whose
\* solution is the key.
CreatePuzzle(t, payload, key) ==
  [ciphertext |-> [i \in 1..Len(payload) |-> (payload[i] + key) % 256],
   puzzle |-> [T |-> t, Key |-> key, Solvable |-> TRUE]]

\* timelockencoders.SolvePuzzleRC5(ciphertext, puzzle): fails on a puzzle
\* that has no solution, otherwise decrypts with the key the puzzle hides.
SolvePuzzleRC5(ciphertext, puzzle) ==
  IF ~puzzle.Solvable
    THEN [err |-> "PuzzleSolveError", bytes |-> << >>]
    ELSE [err |-> "none",
          bytes |-> [i \in 1..Len(ciphertext) |->
                       (ciphertext[i] + 256 - puzzle.Key) % 256]]

\* TurnIntoEncryptedOrder leaving IntendedAuction at its zero value.
TurnIntoEncryptedOrder_Unbound(a, t, key) ==
  LET c == CreatePuzzle(t, Serialize(a), key)
  IN  [OrderCiphertext |-> c.ciphertext,
       OrderPuzzle |-> c.puzzle,
       IntendedAuction |-> Rep(0, AuctionIDLen)]

\* TurnIntoEncryptedOrder encrypting the signable bytes only.
TurnIntoEncryptedOrder_SignableOnly(a, t, key) ==
  LET c == CreatePuzzle(t, SerializeSignable(a), key)
  IN  [OrderCiphertext |-> c.ciphertext,
       OrderPuzzle |-> c.puzzle,
       IntendedAuction |-> a.AuctionID]

\* a.TurnIntoEncryptedOrder(t), with the key the puzzle creation drew.  The
\* puzzle creation always yields a pair, so the error return is never taken.
TurnIntoEncryptedOrder(a, t, key) ==
  LET c == CreatePuzzle(t, Serialize(a), key)
  IN  [OrderCiphertext |-> c.ciphertext,
       OrderPuzzle |-> c.puzzle,
       IntendedAuction |-> a.AuctionID]

\* ------------------------------------------------------------ sample data

AuctionA == Rep(1, AuctionIDLen)

AuctionB == Rep(2, AuctionIDLen)

SamplePubkey == Rep(3, PubkeyLen)

SamplePair == [AssetWant |-> 4, AssetHave |-> 5]

SampleNonce == << 6, 7 >>

\* A side that is neither buy nor sell.
HoldStr == << 104, 111, 108, 100 >>

SampleSides == {BuyStr, SellStr, EmptyStr, HoldStr}

SampleHave == {0, 3, 100}

SampleWant == {0, 200}

MkOrder(side, have, want, auction, siglen) ==
  [Pubkey |-> SamplePubkey,
   Side |-> side,
   TradingPair |-> SamplePair,
   AmountHave |-> have,
   AmountWant |-> want,
   OrderbookPrice |-> Rat(3, 2),
   AuctionID |-> auction,
   Nonce |-> SampleNonce,
   Signature |-> Rep(9, siglen)]

SampleOrders ==
  {MkOrder(s, h, w, AuctionA, n) :
     s \in SampleSides, h \in SampleHave, w \in SampleWant, n \in {0, MaxSigLen}}
  \cup {MkOrder(s, 3, 200, AuctionB, n) :
          s \in {BuyStr, HoldStr}, n \in {0, MaxSigLen}}

\* Calls of TurnIntoEncryptedOrder: the time parameter given, and the key
\* the puzzle creation draws.
SampleCalls == {[t |-> 0, key |-> 11], [t |-> 1000, key |-> 200]}

\* Dyadic prices: -1, 0, 1/2, 3/4, 3/2, 2.
SamplePrices ==
  {Rat(0 - 1, 1), Rat(0, 1), Rat(1, 2), Rat(3, 4), Rat(3, 2), Rat(2, 1)}

\* Lengths to which a buffer is cut.
CutLengths == {0, 58, 92, 93, 100, 101, 104}

\* data with the side-length prefix overwritten by v.
WithSideLen(data, v) ==
  Take(data, SideLenOff) \o PutUint64(v) \o Drop(data, SideOff)

\* data with its side-length prefix set to 2^56 (top byte 1).
WithHugeSideLen(data) ==
  Take(data, SideLenOff) \o << 0, 0, 0, 0, 0, 0, 0, 1 >> \o Drop(data, SideOff)

\* ------------------------------------------------------------------ state

VARIABLES
  \* one AuctionOrder and one byte buffer, and the last method applied:
  order,      \* the AuctionOrder the methods are called on
  data,       \* the byte buffer Serialize fills and Deserialize reads
  intact,     \* TRUE while data is exactly Serialize(sent)
  sent,       \* the order last serialized into data
  prev,       \* the order before the last method call
  arg,        \* the price passed to the last SetAmountWant
  ret,        \* what the last method returned: [err, price], with its output
              \* and, for TurnIntoEncryptedOrder, the t and key of the call
  op,         \* the last method called
  \* a batch of encrypted orders being solved:
  batch,      \* i -> the EncryptedAuctionOrder solver i is given
  origin,     \* i -> how batch[i] was built (and from which order)
  capacity,   \* capacity of puzzleResChan
  pc,         \* i -> where goroutine i stands
  orderBytes, \* i -> the bytes goroutine i recovered from its puzzle
  result,     \* i -> the OrderPuzzleResult goroutine i builds
  chan,       \* the results buffered in puzzleResChan
  received,   \* the results the aggregator has received, in arrival order
  abandoned,  \* the aggregator has stopped receiving
  crashed     \* a goroutine panicked: the process has terminated

orderVars == << order, data, intact, sent, prev, arg, ret, op >>

pipeVars ==
  << batch, origin, capacity, pc, orderBytes, result, chan, received, abandoned,
     crashed >>

vars ==
  << order, data, intact, sent, prev, arg, ret, op,
     batch, origin, capacity, pc, orderBytes, result, chan, received, abandoned,
     crashed >>

NoRet == [err |-> "none", price |-> ZeroPrice]

\* ---------------------------------------- the methods of one AuctionOrder

\* No batch is being solved.
NoPipeline ==
  /\ batch = << >>
  /\ origin = << >>
  /\ capacity = 0
  /\ pc = << >>
  /\ orderBytes = << >>
  /\ result = << >>
  /\ chan = << >>
  /\ received = << >>
  /\ abandoned = FALSE
  /\ crashed = FALSE

OrderInit ==
  /\ order \in SampleOrders
  /\ data = << >>
  /\ intact = FALSE
  /\ sent = order
  /\ prev = order
  /\ arg = ZeroPrice
  /\ ret = NoRet
  /\ op = "new"
  /\ NoPipeline

\* data = order.Serialize()
SerializeOp ==
  /\ op \notin {"Serialize", "Cut", "Overwrite"}
  /\ data' = Serialize(order)
  /\ intact' = TRUE
  /\ sent' = order
  /\ prev' = order
  /\ ret' = NoRet
  /\ op' = "Serialize"
  /\ UNCHANGED << order, arg >>

\* A serialized buffer is decoded before the next method is called on the
\* order; before that it may be cut short or have its side-length prefix
\* overwritten (bytes as a hostile submitter or a broken transport leaves them).
CutOp(n) ==
  /\ op = "Serialize"
  /\ n < Len(data)
  /\ data' = Take(data, n)
  /\ intact' = FALSE
  /\ op' = "Cut"
  /\ ret' = NoRet
  /\ UNCHANGED << order, sent, prev, arg >>

OverwriteSideLenOp ==
  /\ op = "Serialize"
  /\ \E d \in {WithSideLen(data, 0), WithSideLen(data, Len(data)),
               WithHugeSideLen(data)} :
       /\ d # data
       /\ data' = d
  /\ intact' = FALSE
  /\ op' = "Overwrite"
  /\ ret' = NoRet
  /\ UNCHANGED << order, sent, prev, arg >>

\* order = new(AuctionOrder); err = order.Deserialize(data)
DeserializeOp ==
  /\ op \in {"Serialize", "Cut", "Overwrite"}
  /\ LET r == Deserialize(NewAuctionOrder, data)
     IN  /\ order' = r.a
         /\ ret' = [err |-> r.err, price |-> ZeroPrice]
  /\ prev' = order
  /\ op' = "Deserialize"
  /\ UNCHANGED << data, intact, sent, arg >>

\* price, err = order.Price()
PriceOp ==
  /\ op \notin {"Serialize", "Cut", "Overwrite"}
  /\ ret' = Price(order)
  /\ prev' = order
  /\ op' = "Price"
  /\ UNCHANGED << order, data, intact, sent, arg >>

\* buf = order.SerializeSignable()
SerializeSignableOp ==
  /\ op \notin {"Serialize", "Cut", "Overwrite"}
  /\ ret' = [err |-> "none", price |-> ZeroPrice, buf |-> SerializeSignable(order)]
  /\ prev' = order
  /\ op' = "SerializeSignable"
  /\ UNCHANGED << order, data, intact, sent, arg >>

\* encrypted, err = order.TurnIntoEncryptedOrder(t), the puzzle creation
\* drawing key.
TurnIntoEncryptedOrderOp(t, key) ==
  /\ op \notin {"Serialize", "Cut", "Overwrite"}
  /\ ret' = [err |-> "none", price |-> ZeroPrice,
             encrypted |-> TurnIntoEncryptedOrder(order, t, key),
             t |-> t, key |-> key]
  /\ prev' = order
  /\ op' = "TurnIntoEncryptedOrder"
  /\ UNCHANGED << order, data, intact, sent, arg >>

\* err = order.SetAmountWant(price)
SetAmountWantOp(price) ==
  /\ op \notin {"Serialize", "Cut", "Overwrite"}
  /\ LET r == SetAmountWant(order, price)
     IN  /\ order' = r.a
         /\ ret' = [err |-> r.err, price |-> ZeroPrice]
  /\ prev' = order
  /\ arg' = price
  /\ op' = "SetAmountWant"
  /\ UNCHANGED << data, intact, sent >>

OrderNext ==
  /\ \/ SerializeOp
     \/ \E n \in CutLengths : CutOp(n)
     \/ OverwriteSideLenOp
     \/ DeserializeOp
     \/ PriceOp
     \/ SerializeSignableOp
     \/ \E c \in SampleCalls : TurnIntoEncryptedOrderOp(c.t, c.key)
     \/ \E price \in SamplePrices : SetAmountWantOp(price)
  /\ UNCHANGED pipeVars

OrderSpec == OrderInit /\ [][OrderNext]_vars

\* ------------------------------------------- properties of the order codec

\* The fixed-size part of the wire layout: pubkey 33 + tradingPair 2 +
\* amountHave 8 + amountWant 8 + sideLength 8 + auctionID 32 + nonce 2 +
\* signatureLength 8.
FixedLayoutLength ==
  PubkeyLen + PairBytes + Uint64Size + Uint64Size + Uint64Size
    + AuctionIDLen + NonceLen + Uint64Size

\* C5: Deserialize requires the length of the fixed-size part of the layout
\* (101 bytes), and every input shorter than that is answered with TooShort
\* (never decoded, never read out of bounds).
C5_TooShortBelowFixedPart ==
  (op = "Deserialize" /\ Len(data) < FixedLayoutLength)
    => ret.err = "TooShort"

\* Field-wise equality of two orders, OrderbookPrice excluded.
SameEncodedFields(a, b) ==
  /\ a.Pubkey = b.Pubkey
  /\ a.Side = b.Side
  /\ a.TradingPair = b.TradingPair
  /\ a.AmountHave = b.AmountHave
  /\ a.AmountWant = b.AmountWant
  /\ a.AuctionID = b.AuctionID
  /\ a.Nonce = b.Nonce
  /\ a.Signature = b.Signature

ValidSide(a) == a.Side \in {BuyStr, SellStr}

\* C6: for every valid order a, Deserialize(Serialize(a)) succeeds and yields
\* an order equal to a in every field except OrderbookPrice.
C6_RoundTrip ==
  (op = "Deserialize" /\ intact /\ ValidSide(sent))
    => /\ ret.err = "none"
       /\ SameEncodedFields(order, sent)

\* A sell order with an empty signature went through the round trip, and
\* its OrderbookPrice did not.
C6_Witness ==
  /\ op = "Deserialize"
  /\ intact
  /\ IsSellSide(sent)
  /\ sent.Signature = << >>
  /\ sent.AmountWant > 0
  /\ ret.err = "none"
  /\ order.OrderbookPrice # sent.OrderbookPrice

\* C7: Price on an order with amountWant > 0 succeeds with
\* amountWant/amountHave on a buy order and amountHave/amountWant on a sell
\* order; it fails with DivideByZero when amountWant = 0 and with InvalidSide
\* only when the side is neither buy nor sell.
C7_PriceContract ==
  op = "Price"
    => /\ (prev.AmountWant > 0 /\ IsBuySide(prev))
            => /\ ret.err = "none"
               /\ ret.price = Rat(prev.AmountWant, prev.AmountHave)
       /\ (prev.AmountWant > 0 /\ IsSellSide(prev))
            => /\ ret.err = "none"
               /\ ret.price = Rat(prev.AmountHave, prev.AmountWant)
       /\ prev.AmountWant = 0 => ret.err = "DivideByZero"
       /\ ret.err = "InvalidSide" => ~IsBuySide(prev) /\ ~IsSellSide(prev)

\* round(n/d) for n >= 0, d > 0: to the nearest integer, halves up.
RoundDiv(n, d) == (2 * n + d) \div (2 * d)

\* What SetAmountWant does when it fails: the error, amountWant unchanged.
SetAmountWantFailures ==
  /\ arg.num <= 0 => ret.err = "InvalidPrice" /\ order = prev
  /\ (arg.num > 0 /\ ~IsBuySide(prev) /\ ~IsSellSide(prev))
       => ret.err = "InvalidSide" /\ order = prev
  /\ ret.err # "none" => order.AmountWant = prev.AmountWant

C10_SideIsBuyOrSell ==
  (op = "Deserialize" /\ ret.err = "none")
    => /\ IsBuySide(order) # IsSellSide(order)
       /\ OppositeSide(order) \in {BuyStr, SellStr} \ {order.Side}

\* C10 amended: an order a successful Deserialize produces carries the side
\* string of its input, which is any string; it is never both buy and sell,
\* and OppositeSide returns sell for buy, buy for sell and the empty string
\* for every other side.
C10_SideIsFreeForm ==
  (op = "Deserialize" /\ ret.err = "none")
    => /\ ~(IsBuySide(order) /\ IsSellSide(order))
       /\ intact => order.Side = sent.Side
       /\ order.Side = BuyStr => OppositeSide(order) = SellStr
       /\ order.Side = SellStr => OppositeSide(order) = BuyStr
       /\ order.Side \notin {BuyStr, SellStr} => OppositeSide(order) = EmptyStr

\* Deserialize succeeded on a buffer whose side is neither buy nor sell.
C10_Witness ==
  /\ op = "Deserialize"
  /\ ret.err = "none"
  /\ ~IsBuySide(order)
  /\ ~IsSellSide(order)
  /\ OppositeSide(order) = EmptyStr

\* Signatures and orderbook prices an order is given to see whether its
\* signable bytes change.
OtherSignatures == {EmptyStr, Rep(9, 1), Rep(7, MaxSigLen)}

\* C11: for every order, SerializeSignable is byte for byte a prefix of
\* Serialize that ends exactly after the nonce; Serialize is SerializeSignable
\* followed by the 8-byte little-endian signature length and the signature;
\* and the signable bytes depend neither on the signature nor on
\* OrderbookPrice.  Stated of the buffer SerializeSignable returned and of
\* the buffer Serialize filled.
C11_SignableIsPrefixOfSerialize ==
  /\ (op = "SerializeSignable") =>
       LET buf == ret.buf
           full == Serialize(prev)
           sig == prev.Signature
       IN  /\ Len(buf) <= Len(full)
           /\ Take(full, Len(buf)) = buf
           /\ Len(buf) = SigLenOff(full)
           /\ Field(buf, NonceOff(full), NonceLen) = prev.Nonce
           /\ full = buf \o PutUint64(Len(sig)) \o sig
           /\ Uint64(Field(full, Len(buf), Uint64Size)) = Len(sig)
           /\ Drop(full, Len(buf) + Uint64Size) = sig
           /\ \A s \in OtherSignatures, p \in SamplePrices :
                SerializeSignable(
                  [prev EXCEPT !.Signature = s, !.OrderbookPrice = p]) = buf
  /\ (op = "Serialize") =>
       data = SerializeSignable(sent) \o PutUint64(Len(sent.Signature))
                \o sent.Signature

\* SerializeSignable has been called on a signed order that carries an
\* orderbook price, and returned fewer bytes than Serialize writes.
C11_Witness ==
  /\ op = "SerializeSignable"
  /\ prev.Signature # EmptyStr
  /\ prev.OrderbookPrice # ZeroPrice
  /\ Len(ret.buf) = SigLenOff(Serialize(prev))
  /\ Len(ret.buf) + Uint64Size + MaxSigLen = Len(Serialize(prev))

\* C12: TurnIntoEncryptedOrder on an order with AuctionID = X and any time
\* parameter yields an EncryptedAuctionOrder with IntendedAuction = X whose
\* ciphertext and puzzle are what the puzzle creation makes of the time
\* parameter and Serialize(order), so that solving the puzzle gives back the
\* serialized order, signature included; this holds whether or not the
\* order is signed, and the order itself is left unchanged.
C12_EncryptedOrderWrapsSerialize ==
  (op = "TurnIntoEncryptedOrder") =>
    LET e == ret.encrypted
        c == CreatePuzzle(ret.t, Serialize(prev), ret.key)
        solved == SolvePuzzleRC5(e.OrderCiphertext, e.OrderPuzzle)
    IN  /\ ret.err = "none"
        /\ e.IntendedAuction = prev.AuctionID
        /\ e.OrderCiphertext = c.ciphertext
        /\ e.OrderPuzzle = c.puzzle
        /\ e.OrderPuzzle.T = ret.t
        /\ Len(e.OrderCiphertext) = Len(Serialize(prev))
        /\ solved.err = "none"
        /\ solved.bytes = Serialize(prev)
        /\ order = prev

\* TurnIntoEncryptedOrder has wrapped an unsigned order of auction B with
\* time parameter 0.
C12_Witness ==
  /\ op = "TurnIntoEncryptedOrder"
  /\ prev.AuctionID = AuctionB
  /\ prev.Signature = EmptyStr
  /\ ret.t = 0
  /\ ret.encrypted.IntendedAuction = AuctionB

\* ------------------------------------------------- the solver pipeline

\* A nil pointer, and a pointer to the value a.
Nil == << >>

Ptr(a) == << a >>

Solvers == 1..NumOrders

\* The time parameter and the key of the sample puzzles.
SampleTime == 2 + 3

SampleKey == 10 + 1

BuyOrder == MkOrder(BuyStr, 100, 200, AuctionA, MaxSigLen)

SellOrder == MkOrder(SellStr, 3, 200, AuctionA, 0)

HoldOrder == MkOrder(HoldStr, 3, 0, AuctionA, 0)

\* An envelope around arbitrary bytes, as a submitter can build it.
Envelope(bytes, auction, solvable) ==
  LET c == CreatePuzzle(SampleTime, bytes, SampleKey)
  IN  [OrderCiphertext |-> c.ciphertext,
       OrderPuzzle |-> [c.puzzle EXCEPT !.Solvable = solvable],
       IntendedAuction |-> auction]

\* What a batch is drawn from: the envelope, how it was built, and the
\* order it was built from.
Submissions ==
  {[env |-> TurnIntoEncryptedOrder(a, SampleTime, SampleKey),
    kind |-> "wrapped", order |-> a] : a \in {BuyOrder, SellOrder, HoldOrder}}
  \cup
  {[env |-> Envelope(Serialize(BuyOrder), AuctionB, TRUE),
    kind |-> "rebound", order |-> BuyOrder],
   [env |-> Envelope(Serialize(BuyOrder), AuctionA, FALSE),
    kind |-> "unsolvable", order |-> BuyOrder],
   [env |-> Envelope(Take(Serialize(BuyOrder), 58), AuctionA, TRUE),
    kind |-> "short", order |-> BuyOrder],
   [env |-> Envelope(Take(Serialize(SellOrder), 100), AuctionA, TRUE),
    kind |-> "overrun", order |-> SellOrder],
   [env |-> Envelope(WithHugeSideLen(Serialize(BuyOrder)), AuctionA, TRUE),
    kind |-> "hugeSideLen", order |-> BuyOrder]}

\* The kinds the puzzle solve fails on or whose bytes are not an order.
CorruptedKinds == {"unsolvable", "short", "overrun", "hugeSideLen"}

\* SolveStep with result.Auction allocated before the puzzle is solved.
SolveStep_AllocatesFirst(ref, e) ==
  LET s == SolvePuzzleRC5(e.OrderCiphertext, e.OrderPuzzle)
  IN  IF s.err # "none"
        THEN [at |-> "send",
              orderBytes |-> << >>,
              result |-> [Encrypted |-> ref, Auction |-> Ptr(NewAuctionOrder),
                          Err |-> "PuzzleSolveError"]]
        ELSE [at |-> "solved",
              orderBytes |-> s.bytes,
              result |-> [Encrypted |-> ref, Auction |-> Ptr(NewAuctionOrder),
                          Err |-> "none"]]

\* SolveRC5AuctionOrderAsync(e, puzzleResChan) for the order with reference
\* ref, up to the puzzle solve: the result it has built and the bytes it
\* recovered, and whether it goes on to decode ("solved") or to send the
\* error ("send").
SolveStep(ref, e) ==
  LET s == SolvePuzzleRC5(e.OrderCiphertext, e.OrderPuzzle)
  IN  IF s.err # "none"
        THEN [at |-> "send",
              orderBytes |-> << >>,
              result |-> [Encrypted |-> ref, Auction |-> Nil,
                          Err |-> "PuzzleSolveError"]]
        ELSE [at |-> "solved",
              orderBytes |-> s.bytes,
              result |-> [Encrypted |-> ref, Auction |-> Nil, Err |-> "none"]]

\* The rest of SolveRC5AuctionOrderAsync up to its send: result.Auction is
\* allocated and Deserialize is called on it; the goroutine reaches a send
\* ("send") or panics in Deserialize ("panicked").
DecodeStep(res, bytes) ==
  LET d == Deserialize(NewAuctionOrder, bytes)
  IN  IF d.err = "panic"
        THEN [at |-> "panicked", result |-> [res EXCEPT !.Auction = Ptr(d.a)]]
      ELSE IF d.err # "none"
        THEN [at |-> "send",
              result |-> [res EXCEPT !.Auction = Ptr(d.a),
                                     !.Err = "DecodeAfterSolveError"]]
      ELSE [at |-> "send", result |-> [res EXCEPT !.Auction = Ptr(d.a)]]

\* The send of a puzzle solve error not followed by a return: the goroutine
\* goes on to decode.
AfterSend_NoReturnOnSolveError(r) ==
  IF r.Err = "PuzzleSolveError" THEN "solved" ELSE "done"

\* Where the goroutine stands after its send of result r: every send is
\* followed by a return.
AfterSend(r) == "done"

NoResult == [Encrypted |-> 0, Auction |-> Nil, Err |-> "none"]

NoOrderCall ==
  /\ order = NewAuctionOrder
  /\ data = << >>
  /\ intact = FALSE
  /\ sent = NewAuctionOrder
  /\ prev = NewAuctionOrder
  /\ arg = ZeroPrice
  /\ ret = NoRet
  /\ op = "new"

\* One goroutine has been started per order of a batch drawn from subset,
\* all on one channel.
InitWith(subset) ==
  /\ \E subs \in [Solvers -> subset] :
       /\ batch = [i \in Solvers |-> subs[i].env]
       /\ origin = [i \in Solvers |-> [kind |-> subs[i].kind,
                                       order |-> subs[i].order]]
  /\ capacity \in 0..NumOrders
  /\ pc = [i \in Solvers |-> "start"]
  /\ orderBytes = [i \in Solvers |-> << >>]
  /\ result = [i \in Solvers |-> NoResult]
  /\ chan = << >>
  /\ received = << >>
  /\ abandoned = FALSE
  /\ crashed = FALSE
  /\ NoOrderCall

Init == InitWith(Submissions)

\* Goroutine i solves its puzzle.
Solve(i) ==
  /\ ~crashed
  /\ pc[i] = "start"
  /\ \E o \in {SolveStep(i, batch[i])} :
       /\ result' = [result EXCEPT ![i] = o.result]
       /\ orderBytes' = [orderBytes EXCEPT ![i] = o.orderBytes]
       /\ pc' = [pc EXCEPT ![i] = o.at]
  /\ UNCHANGED << batch, origin, capacity, chan, received, abandoned, crashed >>

\* Goroutine i decodes the bytes it recovered.  A panic in Deserialize is not
\* recovered: it terminates the process.
Decode(i) ==
  /\ ~crashed
  /\ pc[i] = "solved"
  /\ \E o \in {DecodeStep(result[i], orderBytes[i])} :
       /\ result' = [result EXCEPT ![i] = o.result]
       /\ pc' = [pc EXCEPT ![i] = o.at]
       /\ crashed' = (o.at = "panicked")
  /\ UNCHANGED << batch, origin, capacity, orderBytes, chan, received, abandoned >>

\* The aggregator is blocked in a receive.
Receiving == ~abandoned /\ Len(received) < NumOrders

\* puzzleResChan <- result, then return: into the buffer when it has room,
\* or straight to the aggregator when it waits on the empty channel.
Send(i) ==
  /\ ~crashed
  /\ pc[i] = "send"
  /\ \/ /\ Len(chan) < capacity
        /\ chan' = Append(chan, result[i])
        /\ UNCHANGED received
     \/ /\ chan = << >>
        /\ Receiving
        /\ received' = Append(received, result[i])
        /\ UNCHANGED chan
  /\ pc' = [pc EXCEPT ![i] = AfterSend(result[i])]
  /\ UNCHANGED << batch, origin, capacity, orderBytes, result, abandoned, crashed >>

\* The aggregator receives a buffered result.
Recv ==
  /\ ~crashed
  /\ Receiving
  /\ chan # << >>
  /\ received' = Append(received, Head(chan))
  /\ chan' = Tail(chan)
  /\ UNCHANGED << batch, origin, capacity, pc, orderBytes, result, abandoned,
                 crashed >>

\* The aggregator abandons the round: it receives no more.
Abandon ==
  /\ ~crashed
  /\ Receiving
  /\ abandoned' = TRUE
  /\ UNCHANGED << batch, origin, capacity, pc, orderBytes, result, chan,
                 received, crashed >>

Next ==
  /\ \/ \E i \in Solvers : Solve(i)
     \/ \E i \in Solvers : Decode(i)
     \/ \E i \in Solvers : Send(i)
     \/ Recv
     \/ Abandon
  /\ UNCHANGED orderVars

Spec == Init /\ [][Next]_vars

\* The scheduler runs every runnable goroutine (each of its steps changes
\* pc), and an aggregator that has not abandoned the round keeps receiving.
Fairness ==
  /\ \A i \in Solvers : WF_pc(Solve(i)) /\ WF_pc(Decode(i)) /\ WF_pc(Send(i))
  /\ WF_received(Recv)

\* The batches of the fair specification: an order that decodes, one whose
\* puzzle has no solution, and one whose decode panics.
FairSubmissions ==
  {sub \in Submissions :
     \/ sub.kind \in {"unsolvable", "overrun"}
     \/ sub.kind = "wrapped" /\ sub.order = BuyOrder}

FairInit == InitWith(FairSubmissions)

FairSpec == FairInit /\ [][Next]_vars /\ Fairness

\* ------------------------------------------- properties of the pipeline

\* Every result sent so far, buffered or received.
Emitted == chan \o received

\* The results sent so far that refer to order i.
EmittedFor(i) == {j \in 1..Len(Emitted) : Emitted[j].Encrypted = i}

Ended(i) == pc[i] \in {"done", "panicked"}

\* C1: every invocation of SolveRC5AuctionOrderAsync sends exactly one
\* result and then returns: a goroutine that has ended has sent one result,
\* it ends only by returning, and none ever sends two.
C1_ExactlyOneResult ==
  \A i \in Solvers :
    /\ Cardinality(EmittedFor(i)) <= 1
    /\ Ended(i) => pc[i] = "done" /\ Cardinality(EmittedFor(i)) = 1

\* C2: once the goroutines of a batch of N orders, k of them corrupted, have
\* ended, N results were sent, each referring to a distinct order, exactly k
\* with an error (those of the corrupted orders), the others carrying the
\* decoded order of the input they refer to.
C2_PipelineIsolation ==
  (\A i \in Solvers : Ended(i))
    => /\ Len(Emitted) = NumOrders
       /\ \A i \in Solvers : Cardinality(EmittedFor(i)) = 1
       /\ Cardinality({j \in 1..Len(Emitted) : Emitted[j].Err # "none"})
            = Cardinality({i \in Solvers : origin[i].kind \in CorruptedKinds})
       /\ \A j \in 1..Len(Emitted) :
            LET r == Emitted[j]
            IN  IF origin[r.Encrypted].kind \in CorruptedKinds
                  THEN r.Err # "none"
                  ELSE /\ r.Err = "none"
                       /\ r.Auction # Nil
                       /\ SameEncodedFields(r.Auction[1], origin[r.Encrypted].order)

\* C3 as stated: in every result sent, exactly one of Auction and Err is
\* present, and Encrypted refers to an order of the batch.
C3_ExactlyOneOfAuctionErr ==
  \A j \in 1..Len(Emitted) :
    /\ (Emitted[j].Auction = Nil) # (Emitted[j].Err = "none")
    /\ Emitted[j].Encrypted \in Solvers

\* C3 amended: in every result sent, Auction is nil exactly when the puzzle
\* solve failed, Err is absent exactly when solve and decode both succeeded,
\* and a result of a failed decode carries both a DecodeAfterSolveError and
\* the non-nil order Deserialize was called on; Encrypted refers to the input
\* order of the goroutine that sent it.
C3_AuctionNilOnlyOnSolveFailure ==
  /\ \A j \in 1..Len(Emitted) :
       LET r == Emitted[j]
           k == origin[r.Encrypted].kind
       IN  /\ r.Encrypted \in Solvers
           /\ r = result[r.Encrypted]
           /\ (r.Auction = Nil) <=> (r.Err = "PuzzleSolveError")
           /\ (r.Err = "PuzzleSolveError") <=> (k = "unsolvable")
           /\ (r.Err = "DecodeAfterSolveError") <=> (k = "short")
           /\ r.Err = "DecodeAfterSolveError" => r.Auction = Ptr(NewAuctionOrder)
           /\ r.Err \in {"none", "PuzzleSolveError", "DecodeAfterSolveError"}
  /\ \A i \in Solvers : pc[i] # "start" => result[i].Encrypted = i

\* A result of a failed decode was received: its Err and its Auction are
\* both present.
C3_Witness ==
  \E j \in 1..Len(received) :
    /\ received[j].Err = "DecodeAfterSolveError"
    /\ received[j].Auction # Nil

\* C4 as stated: every result sent without an error carries an order whose
\* AuctionID is the IntendedAuction of the envelope it refers to.
C4_AuctionBound ==
  \A j \in 1..Len(Emitted) :
    Emitted[j].Err = "none"
      => Emitted[j].Auction[1].AuctionID
           = batch[Emitted[j].Encrypted].IntendedAuction

\* C4 amended: every result sent without an error for an envelope built by
\* TurnIntoEncryptedOrder carries an order whose AuctionID is the
\* IntendedAuction of that envelope; the pipeline itself compares nothing,
\* and it does send error-free results.
C4_AuctionBoundWhenWrapped ==
  \A j \in 1..Len(Emitted) :
    LET r == Emitted[j]
    IN  (r.Err = "none" /\ origin[r.Encrypted].kind = "wrapped")
          => /\ r.Auction # Nil
             /\ r.Auction[1].AuctionID = batch[r.Encrypted].IntendedAuction
             /\ r.Auction[1].AuctionID = origin[r.Encrypted].order.AuctionID

\* An error-free result of an envelope built by TurnIntoEncryptedOrder was
\* received, and so was an error-free result of an envelope bound to another
\* auction than its order.
C4_Witness ==
  /\ \E j \in 1..Len(received) :
       /\ received[j].Err = "none"
       /\ origin[received[j].Encrypted].kind = "wrapped"
  /\ \E j \in 1..Len(received) :
       /\ received[j].Err = "none"
       /\ origin[received[j].Encrypted].kind = "rebound"

====
